---------------------------- MODULE Spec2Model ----------------------------
(* parse_safe_transactions of DAO-Accountant (src/main.py) as a state      *)
(* machine: one step per loop iteration of the function.  Further          *)
(* specifications run whole calls of it on a stored list (SpecCalls) and   *)
(* the main script with get_safe_transactions and the raw cache file, run  *)
(* after run (SpecMain).                                                   *)
(*                                                                         *)
(* Python strings are sequences of Unicode code points (naturals); the     *)
(* string methods the function calls (lower, upper, isalnum, encode, in,   *)
(* replace, str of a Decimal) are computed on those sequences.             *)
EXTENDS Integers, Sequences, FiniteSets, TLC

VARIABLES
    wallet_address,     \* argument wallet_address
    chain,              \* argument chain
    parsed_txs,         \* the list the function builds and returns
    pc,                 \* position in the function
    tx_count,           \* transactions of the input list consumed so far
    tx,                 \* loop variable of `for tx in transactions`; NoTx
                        \* between iterations, when nothing reads it
    tx_base,            \* len(parsed_txs) when the iteration for tx began
    tx_fee_native_decimal,
    processed_any_transfer_for_this_wallet,
    transfer_count,     \* transfers of the input list consumed so far
    transfer,           \* loop variable of `for ... transfer in ...`: the
                        \* transfer of tx last iterated, NoTransfer before
    loc,                \* the locals that iteration left
    exception           \* the exception that left the function, if any

\* Whole calls of parse_safe_transactions on one list.
VARIABLES
    transactions,       \* the list passed as the argument `transactions`
    returned            \* what each call so far returned or raised, in order

\* The main script, run after run, for one wallet and chain.
VARIABLES
    main_pc,            \* position in the script: "idle", "fetch" (in
                        \* get_safe_transactions), "fetched", "parse",
                        \* "parsing", "done", or "fetch_raised" /
                        \* "parse_raised" when an exception ended the run
    run,                \* runs started so far
    cache_file,         \* the raw cache file data/<chain>_wallet_history.json:
                        \* [state, items], state "absent", "empty",
                        \* "undecodable" or "list"
    history,            \* eth_history / op_history
    eth_parsed,         \* what parse_safe_transactions made of history
    all_results,        \* get_safe_transactions: the results so far
    next_page,          \* get_safe_transactions: the page to request, 0 for
                        \* no link
    page_count,         \* get_safe_transactions: requests made in this call
    response,           \* get_safe_transactions: whether the local variable
                        \* `response` is bound
    fetch_log           \* for each run so far: the state of the cache file it
                        \* found, whether it called get_safe_transactions,
                        \* and what the service answered to each request

parse_vars == <<wallet_address, chain, parsed_txs, pc, tx_count, tx, tx_base,
                tx_fee_native_decimal, processed_any_transfer_for_this_wallet,
                transfer_count, transfer, loc, exception>>

call_vars == <<transactions, returned>>

main_vars == <<main_pc, run, cache_file, history, eth_parsed, all_results,
               next_page, page_count, response, fetch_log>>

vars == <<parse_vars, call_vars, main_vars>>

-----------------------------------------------------------------------------
(* Bounds of the model: the transactions of the input list, and the        *)
(* transfers embedded in all of them together.                             *)

MaxTxs == 1

MaxTransfers == 1

\* Whole calls: the transactions of a list, the transfers of one
\* transaction, and the calls on one list.
MaxListTxs == 1

MaxListTransfers == 2

MaxCalls == 2

\* The main script: its runs, and the pages the service holds.
MaxRuns == 2

MaxPages == 2

-----------------------------------------------------------------------------
(* Python values.                                                          *)

\* None (also: a key that is absent, where the code reads it with .get()).
\* No code point is negative, so no string equals it.
None == <<-1>>

EmptyStr == <<>>

\* bool(x) for x a string or None.
Truthy(x) == x # None /\ Len(x) > 0

RECURSIVE Concat(_)
Concat(parts) ==
    IF parts = <<>> THEN <<>> ELSE Head(parts) \o Concat(Tail(parts))

\* The case mappings and isalnum below are Python's on these code points,
\* from which every string of the model is drawn: U+0000..U+007F,
\* U+00C0..U+00FE except U+00DF, Greek U+0391..U+03A9 and U+03B1..U+03C9,
\* Cyrillic U+0410..U+044F, General Punctuation U+2000..U+206F, Mathematical
\* bold and italic letters U+1D400..U+1D433, fullwidth letters
\* U+FF21..U+FF3A and U+FF41..U+FF5A.

\* chr(c).lower()
LowerCp(c) ==
    IF c >= 65 /\ c <= 90 THEN c + 32
    ELSE IF c >= 192 /\ c <= 222 /\ c # 215 THEN c + 32
    ELSE IF c >= 913 /\ c <= 937 /\ c # 930 THEN c + 32
    ELSE IF c >= 1040 /\ c <= 1071 THEN c + 32
    ELSE IF c >= 65313 /\ c <= 65338 THEN c + 32
    ELSE c

\* chr(c).upper()
UpperCp(c) ==
    IF c >= 97 /\ c <= 122 THEN c - 32
    ELSE IF c >= 224 /\ c <= 254 /\ c # 247 THEN c - 32
    ELSE IF c = 962 THEN 931
    ELSE IF c >= 945 /\ c <= 969 THEN c - 32
    ELSE IF c >= 1072 /\ c <= 1103 THEN c - 32
    ELSE IF c >= 65345 /\ c <= 65370 THEN c - 32
    ELSE c

\* s.lower()
lower(s) == [i \in 1..Len(s) |-> LowerCp(s[i])]

\* s.upper()
upper(s) == [i \in 1..Len(s) |-> UpperCp(s[i])]

\* str.isalnum on one character
isalnum(c) ==
    \/ c >= 48 /\ c <= 57
    \/ c >= 65 /\ c <= 90
    \/ c >= 97 /\ c <= 122
    \/ c >= 192 /\ c <= 254 /\ c # 215 /\ c # 247
    \/ c >= 913 /\ c <= 937 /\ c # 930
    \/ c >= 945 /\ c <= 969
    \/ c >= 1040 /\ c <= 1103
    \/ c >= 65313 /\ c <= 65338
    \/ c >= 65345 /\ c <= 65370
    \/ c >= 119808 /\ c <= 119859

\* s.encode('ascii') raises UnicodeEncodeError
NotAscii(s) == \E i \in 1..Len(s) : s[i] > 127

\* sub in s
Contains(s, sub) ==
    \E i \in 0..(Len(s) - Len(sub)) :
        \A j \in 1..Len(sub) : s[i + j] = sub[j]

StartsWith(s, prefix) ==
    /\ Len(prefix) <= Len(s)
    /\ \A j \in 1..Len(prefix) : s[j] = prefix[j]

\* "".join(filter(str.isalnum, s))
alnum_only(s) == SelectSeq(s, isalnum)

\* s.replace(chr(a), b) for a single character a and a string b
RECURSIVE ReplaceCp(_, _, _)
ReplaceCp(s, a, b) ==
    IF s = <<>> THEN <<>>
    ELSE (IF Head(s) = a THEN b ELSE <<Head(s)>>) \o ReplaceCp(Tail(s), a, b)

-----------------------------------------------------------------------------
(* decimal.Decimal, for the non-negative values the function computes: a   *)
(* coefficient (its decimal digits, most significant first, no leading     *)
(* zero) and an exponent; the value is coefficient * 10^exp.  Decimal(s)   *)
(* is exact for any number of digits; a division rounds its result to the  *)
(* context precision (line 13), half to even.                              *)

\* getcontext().prec
prec == 50

\* Decimal(0)
Decimal0 == [digits |-> <<0>>, exp |-> 0]

\* Decimal(1)
Decimal1 == [digits |-> <<1>>, exp |-> 0]

IsDigits(s) == s # None /\ Len(s) > 0 /\ \A i \in 1..Len(s) : s[i] >= 48 /\ s[i] <= 57

\* Whether Decimal(s) and int(s) accept the string s.  The numeric strings
\* of the model are plain digit strings; every other string it draws has a
\* letter in it, and None is no number either.
ParsesAsNumber(s) == IsDigits(s)

RECURSIVE StripLeadingZeros(_)
StripLeadingZeros(ds) ==
    IF Len(ds) > 1 /\ Head(ds) = 0 THEN StripLeadingZeros(Tail(ds)) ELSE ds

\* Decimal(s) for a digit string s
DecimalOf(s) ==
    [digits |-> StripLeadingZeros([i \in 1..Len(s) |-> s[i] - 48]), exp |-> 0]

RECURSIVE IntOfDigits(_)
IntOfDigits(ds) ==
    IF ds = <<>> THEN 0 ELSE 10 * IntOfDigits(SubSeq(ds, 1, Len(ds) - 1)) + ds[Len(ds)]

\* int(s) for a digit string s
IntOf(s) == IntOfDigits([i \in 1..Len(s) |-> s[i] - 48])

DecIsZero(d) == d.digits = <<0>>

\* d > 0
DecPositive(d) == ~DecIsZero(d)

\* The exact quotient is coefficient * 10^(exp - k); Decimal division then
\* brings the exponent as close to the ideal exponent (the dividend's) as
\* the coefficient's trailing zeros allow.
RECURSIVE DecReduce(_, _)
DecReduce(d, ideal) ==
    IF d.exp < ideal /\ Len(d.digits) > 1 /\ d.digits[Len(d.digits)] = 0
    THEN DecReduce([digits |-> SubSeq(d.digits, 1, Len(d.digits) - 1),
                    exp |-> d.exp + 1], ideal)
    ELSE d

\* ds + 1, digit by digit; one digit longer when every digit is 9
RECURSIVE IncrementDigits(_)
IncrementDigits(ds) ==
    IF ds = <<>> THEN <<1>>
    ELSE IF ds[Len(ds)] < 9
    THEN SubSeq(ds, 1, Len(ds) - 1) \o <<ds[Len(ds)] + 1>>
    ELSE IncrementDigits(SubSeq(ds, 1, Len(ds) - 1)) \o <<0>>

\* The context's rounding (ROUND_HALF_EVEN) of a coefficient to prec digits.
DecRound(d) ==
    LET n == Len(d.digits)
        keep == SubSeq(d.digits, 1, prec)
        rest == SubSeq(d.digits, prec + 1, n)
        more == \E i \in 2..Len(rest) : rest[i] # 0
        up == \/ rest[1] > 5
              \/ rest[1] = 5 /\ (more \/ keep[prec] % 2 = 1)
        raised == IncrementDigits(keep)
    IN  IF n <= prec THEN d
        ELSE IF ~up THEN [digits |-> keep, exp |-> d.exp + (n - prec)]
        ELSE IF Len(raised) > prec
        THEN [digits |-> SubSeq(raised, 1, prec), exp |-> d.exp + (n - prec) + 1]
        ELSE [digits |-> raised, exp |-> d.exp + (n - prec)]

\* d / (Decimal(10) ** k), 0 <= k < prec
DecDivPow10(d, k) ==
    IF DecIsZero(d) THEN [digits |-> <<0>>, exp |-> d.exp]
    ELSE DecRound(DecReduce([digits |-> d.digits, exp |-> d.exp - k], d.exp))

RECURSIVE NatToStr(_)
NatToStr(n) ==
    IF n < 10 THEN <<48 + n>> ELSE NatToStr(n \div 10) \o <<48 + (n % 10)>>

DigitsToStr(ds) == [i \in 1..Len(ds) |-> 48 + ds[i]]

Zeros(n) == [i \in 1..n |-> 48]

\* str(d): Decimal.__str__, scientific notation when the exponent is
\* positive or more than six zeros would follow the point.
DecimalStr(d) ==
    LET n == Len(d.digits)
        leftdigits == d.exp + n
        dotplace == IF d.exp <= 0 /\ leftdigits > -6 THEN leftdigits ELSE 1
        ds == DigitsToStr(d.digits)
        mantissa ==
            IF dotplace <= 0 THEN <<48, 46>> \o Zeros(-dotplace) \o ds
            ELSE IF dotplace >= n THEN ds \o Zeros(dotplace - n)
            ELSE SubSeq(ds, 1, dotplace) \o <<46>> \o SubSeq(ds, dotplace + 1, n)
        e == leftdigits - dotplace
        suffix ==
            IF e = 0 THEN <<>>
            ELSE IF e > 0 THEN <<69, 43>> \o NatToStr(e)
            ELSE <<69, 45>> \o NatToStr(-e)
    IN mantissa \o suffix

-----------------------------------------------------------------------------
(* String literals of the function.                                        *)

ZERO_POINT_ZERO == <<48, 46, 48>>  \* "0.0"
USD == <<85, 83, 68>>  \* "USD"
USDT == <<85, 83, 68, 84>>  \* "USDT"
ETH == <<69, 84, 72>>  \* "ETH"
NA == <<78, 47, 65>>  \* "N/A"
NFT == <<78, 70, 84>>  \* "NFT"
UnknownERC20 == <<85, 110, 107, 110, 111, 119, 110, 69, 82, 67, 50, 48>>  \* "UnknownERC20"
UnknownERC20Addr == <<85, 110, 107, 110, 111, 119, 110, 69, 82, 67, 50, 48, 65, 100, 100, 114>>  \* "UnknownERC20Addr"
UNKNOWN_TRANSFER == <<85, 78, 75, 78, 79, 87, 78, 95, 84, 82, 65, 78, 83, 70, 69, 82>>  \* "UNKNOWN_TRANSFER"
ERC20_TRANSFER == <<69, 82, 67, 50, 48, 95, 84, 82, 65, 78, 83, 70, 69, 82>>  \* "ERC20_TRANSFER"
ETHER_TRANSFER == <<69, 84, 72, 69, 82, 95, 84, 82, 65, 78, 83, 70, 69, 82>>  \* "ETHER_TRANSFER"
ERC721_TRANSFER == <<69, 82, 67, 55, 50, 49, 95, 84, 82, 65, 78, 83, 70, 69, 82>>  \* "ERC721_TRANSFER"
ERC1155_TRANSFER == <<69, 82, 67, 49, 49, 53, 53, 95, 84, 82, 65, 78, 83, 70, 69, 82>>  \* "ERC1155_TRANSFER"
txt_ERC20_Transfer == <<69, 82, 67, 50, 48, 32, 84, 114, 97, 110, 115, 102, 101, 114, 32>>  \* "ERC20 Transfer "
txt_Native_Transfer == <<78, 97, 116, 105, 118, 101, 32, 84, 114, 97, 110, 115, 102, 101, 114, 32>>  \* "Native Transfer "
txt_ID == <<32, 40, 73, 68, 58, 32>>  \* " (ID: "
txt_Method == <<32, 40, 77, 101, 116, 104, 111, 100, 58, 32>>  \* " (Method: "
txt_close == <<41>>  \* ")"
txt_Safe_Operation == <<83, 97, 102, 101, 32, 79, 112, 101, 114, 97, 116, 105, 111, 110>>  \* "Safe Operation"
txt_Contract_Interaction == <<67, 111, 110, 116, 114, 97, 99, 116, 32, 73, 110, 116, 101, 114, 97, 99, 116, 105, 111, 110, 58, 32>>  \* "Contract Interaction: "
txt_Token_Approval_for == <<84, 111, 107, 101, 110, 32, 65, 112, 112, 114, 111, 118, 97, 108, 32, 102, 111, 114, 32>>  \* "Token Approval for "
txt_to == <<32, 116, 111, 32>>  \* " to "
txt_Failed == <<70, 97, 105, 108, 101, 100, 32>>  \* "Failed "
txt_Unknown_Spender == <<85, 110, 107, 110, 111, 119, 110, 32, 83, 112, 101, 110, 100, 101, 114>>  \* "Unknown Spender"
m_transfer == <<116, 114, 97, 110, 115, 102, 101, 114>>  \* "transfer"
m_approve == <<97, 112, 112, 114, 111, 118, 101>>  \* "approve"

\* "0xdac17f958d2ee523a2206206994597c13d831ec7", ETH Mainnet USDT
TRUSTED_ETH_USDT == <<48, 120, 100, 97, 99, 49, 55, 102, 57, 53, 56, 100, 50, 101, 101, 53, 50, 51, 97, 50, 50, 48, 54, 50, 48, 54, 57, 57, 52, 53, 57, 55, 99, 49, 51, 100, 56, 51, 49, 101, 99, 55>>

\* "0x94b008aa00579c1307b0ef2c499ad98a8ce58e58", Optimism USDT
TRUSTED_OP_USDT == <<48, 120, 57, 52, 98, 48, 48, 56, 97, 97, 48, 48, 53, 55, 57, 99, 49, 51, 48, 55, 98, 48, 101, 102, 50, 99, 52, 57, 57, 97, 100, 57, 56, 97, 56, 99, 101, 53, 56, 101, 53, 56>>

trusted_usdt_addresses == {TRUSTED_ETH_USDT, TRUSTED_OP_USDT}

\* native_currency_symbols.get(chain, "ETH")
native_currency_symbols(c) == ETH

WalletInitiated == {"MULTISIG_TRANSACTION", "MODULE_TRANSACTION"}

-----------------------------------------------------------------------------
(* The head of one iteration of `for tx in transactions` (lines 172-200).  *)

\* datetime.strptime(s, "%Y-%m-%dT%H:%M:%SZ") accepts s.  The dates of the
\* model are zero-padded and in range, or lack the T and the Z.
ParsesAsDate(s) ==
    /\ Len(s) = 20
    /\ s[5] = 45 /\ s[8] = 45 /\ s[11] = 84 /\ s[14] = 58 /\ s[17] = 58 /\ s[20] = 90
    /\ \A i \in {1, 2, 3, 4, 6, 7, 9, 10, 12, 13, 15, 16, 18, 19} : s[i] >= 48 /\ s[i] <= 57

\* execution_date_dt.strftime('%Y-%m-%d %H:%M:%S')
execution_date_str(t) ==
    SubSeq(t.executionDate, 1, 10) \o <<32>> \o SubSeq(t.executionDate, 12, 19)

\* the two `continue` of lines 175-184
SkipsTransaction(t) ==
    ~Truthy(t.executionDate) \/ ~ParsesAsDate(t.executionDate)

\* tx.get('transactionHash') or tx.get('txHash')
tx_hash_main(t) ==
    IF Truthy(t.transactionHash) THEN t.transactionHash ELSE t.txHash

\* tx.get('isSuccessful', True), as the conditions of the function read it
is_tx_successful(t) == t.isSuccessful \in {"true", "absent"}

\* lines 191-198.  Decimal(tx['fee']) raises decimal.InvalidOperation on a
\* string that is no number; the except clause then evaluates the name
\* InvalidOperation, which line 8 does not import: NameError leaves the
\* function.
FeeAttempted(t) == t.txType \in WalletInitiated /\ Truthy(t.fee)

FeeRaises(t) == FeeAttempted(t) /\ ~ParsesAsNumber(t.fee)

\* a variant that scales the fee by 10^9
FeeNativeDecimal_gwei(t) ==
    IF FeeAttempted(t) THEN DecDivPow10(DecimalOf(t.fee), 9) ELSE Decimal0

FeeNativeDecimal(t) ==
    IF FeeAttempted(t) THEN DecDivPow10(DecimalOf(t.fee), 18) ELSE Decimal0

\* a variant that reads the transfers whatever the outcome
ProcessesTransfers_whatever_outcome(t) == t.has_transfers

\* line 206
ProcessesTransfers(t) ==
    t.has_transfers /\ (is_tx_successful(t) \/ t.txType = "ETHEREUM_TRANSACTION")

-----------------------------------------------------------------------------
(* One iteration of `for transfer_index, transfer in ...` (lines 207-475). *)

\* line 211
MissingFromTo(tr) == ~Truthy(tr.from) \/ ~Truthy(tr.to)

\* a variant with the two directions exchanged
direction_swapped(tr, wallet) ==
    IF lower(tr.from) = lower(wallet) THEN "IN"
    ELSE IF lower(tr.to) = lower(wallet) THEN "OUT"
    ELSE "NONE"

\* lines 215-231; "NONE" is the else branch, which drops the transfer
direction(tr, wallet) ==
    IF lower(tr.from) = lower(wallet) THEN "OUT"
    ELSE IF lower(tr.to) = lower(wallet) THEN "IN"
    ELSE "NONE"

counterparty_raw(tr, wallet) ==
    IF direction(tr, wallet) = "OUT" THEN tr.to ELSE tr.from

\* a variant that keeps the address as it is spelled
counterparty_as_spelled(tr, wallet) ==
    IF Truthy(counterparty_raw(tr, wallet)) THEN counterparty_raw(tr, wallet) ELSE NA

\* line 234
counterparty(tr, wallet) ==
    IF Truthy(counterparty_raw(tr, wallet)) THEN lower(counterparty_raw(tr, wallet)) ELSE NA

\* lines 236-237
amount_value_str(tr) == IF tr.value = None THEN <<48>> ELSE tr.value

\* transfer.get('type', 'UNKNOWN_TRANSFER')
transfer_type(tr) == IF tr.type = None THEN UNKNOWN_TRANSFER ELSE tr.type

\* line 242
transfer_type_str(tr) == ReplaceCp(transfer_type(tr), 95, <<32>>)

\* token_info.get('symbol', default)
token_symbol(tr, default) ==
    IF tr.tokenInfo.symbol = None THEN default ELSE tr.tokenInfo.symbol

\* lines 246-288: the amount, the currency and the base description by
\* transfer type.  outcome "ok", or "unknown_type" (the continue of line
\* 288), or "raise" with the exception that leaves the function: each except
\* clause of these lines names InvalidOperation, so an unparseable number
\* ends in NameError; line 258 has no try, so there the Decimal exception
\* itself leaves.
Ok(amount, symbol, description) ==
    [outcome |-> "ok", exc |-> "none", amount |-> amount,
     currency_symbol |-> symbol, description_base |-> description]

Raise(exc, symbol) ==
    [outcome |-> "raise", exc |-> exc, amount |-> Decimal0,
     currency_symbol |-> symbol, description_base |-> <<>>]

AmountERC20(tr) ==
    LET v == amount_value_str(tr)
    IN  IF tr.tokenInfo.present
        THEN LET sym == token_symbol(tr, UnknownERC20)
                 desc == txt_ERC20_Transfer \o sym
                 decimals == tr.tokenInfo.decimals
             IN  IF decimals # None
                 THEN IF ParsesAsNumber(v) /\ ParsesAsNumber(decimals)
                      THEN Ok(DecDivPow10(DecimalOf(v), IntOf(decimals)), sym, desc)
                      ELSE Raise("NameError", sym)
                 ELSE IF ParsesAsNumber(v)
                      THEN Ok(DecimalOf(v), sym, desc)
                      ELSE Raise("InvalidOperation", sym)
        ELSE LET sym == IF tr.tokenAddress = None THEN UnknownERC20Addr ELSE tr.tokenAddress
             IN  IF ParsesAsNumber(v)
                 THEN Ok(DecimalOf(v), sym, txt_ERC20_Transfer \o sym)
                 ELSE Raise("NameError", sym)

AmountEther(tr, c) ==
    LET v == amount_value_str(tr)
        sym == native_currency_symbols(c)
    IN  IF ParsesAsNumber(v)
        THEN Ok(DecDivPow10(DecimalOf(v), 18), sym, txt_Native_Transfer \o sym)
        ELSE Raise("NameError", sym)

AmountNFT(tr) ==
    LET v == amount_value_str(tr)
        sym == IF tr.tokenInfo.present THEN token_symbol(tr, NFT) ELSE NFT
        token_id_str == IF tr.tokenId = None THEN <<>> ELSE tr.tokenId
        desc == transfer_type_str(tr) \o <<32>> \o sym \o txt_ID \o token_id_str \o txt_close
    IN  IF ParsesAsNumber(v)
        THEN Ok(IF tr.type = ERC721_TRANSFER /\ DecIsZero(DecimalOf(v))
                THEN Decimal1 ELSE DecimalOf(v), sym, desc)
        ELSE Raise("NameError", sym)

Amount(tr, c) ==
    IF tr.type = ERC20_TRANSFER THEN AmountERC20(tr)
    ELSE IF tr.type = ETHER_TRANSFER THEN AmountEther(tr, c)
    ELSE IF tr.type \in {ERC721_TRANSFER, ERC1155_TRANSFER} THEN AmountNFT(tr)
    ELSE [outcome |-> "unknown_type", exc |-> "none", amount |-> Decimal0,
          currency_symbol |-> NA, description_base |-> transfer_type_str(tr)]

\* lines 290-296
description_final(t, base) ==
    IF Truthy(t.dataDecoded.method)
    THEN base \o txt_Method \o t.dataDecoded.method \o txt_close
    ELSE base

\* a variant that attributes the fee field of a transaction of any type
fee_for_this_record_str_of_any_type(t, fee_decimal) ==
    IF Truthy(t.fee) /\ ParsesAsNumber(t.fee)
    THEN DecimalStr(DecDivPow10(DecimalOf(t.fee), 18))
    ELSE ZERO_POINT_ZERO

\* lines 301-303
fee_for_this_record_str(t, fee_decimal) ==
    IF t.txType \in WalletInitiated THEN DecimalStr(fee_decimal) ELSE ZERO_POINT_ZERO

\* lines 306-310: token_info is set for an ERC20 transfer with tokenInfo only
HasTokenInfo(tr) == tr.type = ERC20_TRANSFER /\ tr.tokenInfo.present

token_name(tr) ==
    IF HasTokenInfo(tr) /\ tr.tokenInfo.name # None THEN tr.tokenInfo.name ELSE <<>>

\* line 313
looks_like_usdt(symbol, name) ==
    Contains(upper(symbol), USD) \/ Contains(upper(name), USD)

\* line 314
exact_match_usdt(symbol) == symbol = USDT

\* a variant that compares with "0"
is_zero_fee_as_0(fee_str) == fee_str = <<48>>

\* line 315
is_zero_fee(fee_str) == fee_str = ZERO_POINT_ZERO

\* a variant that looks the address up as it is spelled
is_authentic_usdt_as_spelled(tr, c) ==
    /\ HasTokenInfo(tr)
    /\ Truthy(tr.tokenInfo.address)
    /\ tr.tokenInfo.address \in trusted_usdt_addresses

\* lines 318-331: one set of trusted addresses, whatever the chain
is_authentic_usdt(tr, c) ==
    /\ HasTokenInfo(tr)
    /\ Truthy(tr.tokenInfo.address)
    /\ lower(tr.tokenInfo.address) \in trusted_usdt_addresses

\* lines 381-386
SuspiciousCodePoint(code) ==
    \/ code >= 1024 /\ code <= 1279       \* 0x0400..0x04FF Cyrillic
    \/ code >= 880 /\ code <= 1023        \* 0x0370..0x03FF Greek
    \/ code >= 1280 /\ code <= 1327       \* 0x0500..0x052F Cyrillic Supplement
    \/ code >= 8192 /\ code <= 8303       \* 0x2000..0x206F General Punctuation
    \/ code >= 119808 /\ code <= 120831   \* 0x1D400..0x1D7FF Mathematical Alphanumeric
    \/ code >= 65280 /\ code <= 65519     \* 0xFF00..0xFFEF Halfwidth and Fullwidth Forms

\* a variant that reads the symbol only
Criterion1_symbol_only(symbol, name) ==
    /\ NotAscii(symbol)
    /\ 3 <= Len(symbol) /\ Len(symbol) <= 5

\* lines 371-374
Criterion1(symbol, name) ==
    /\ NotAscii(symbol) \/ (Truthy(name) /\ NotAscii(name))
    /\ 3 <= Len(symbol) /\ Len(symbol) <= 5

\* lines 377-392
Criterion2(symbol, name) ==
    LET normalized_alnum_symbol == upper(alnum_only(symbol))
        both == symbol \o name
    IN  /\ \E i \in 1..Len(both) : SuspiciousCodePoint(both[i])
        /\ Len(symbol) <= 5
        /\ Contains(normalized_alnum_symbol, USD) \/ normalized_alnum_symbol = USDT

\* lines 394-400: expected_ascii_codes are the code points of "USDT"
Criterion3(symbol) ==
    /\ symbol = USDT
    /\ symbol # <<85, 83, 68, 84>>

\* lines 403-415
Criterion4(symbol) ==
    \/ upper(alnum_only(symbol)) = USDT /\ symbol # USDT
    \/ upper(ReplaceCp(symbol, 32, <<>>)) = USDT /\ symbol # USDT

\* lines 417-423
Criterion5(symbol, name, fee_str) ==
    is_zero_fee(fee_str) /\ looks_like_usdt(symbol, name) /\ ~exact_match_usdt(symbol)

\* lines 368-423
is_fake_token(symbol, name, authentic, fee_str) ==
    /\ ~authentic
    /\ \/ Criterion1(symbol, name)
       \/ Criterion2(symbol, name)
       \/ Criterion3(symbol)
       \/ Criterion4(symbol)
       \/ Criterion5(symbol, name, fee_str)

\* the record of lines 464-475
TransferRecord(t, tr, wallet, c, amt, fee_str) ==
    [Date |-> execution_date_str(t),
     WalletAddress |-> lower(wallet),
     Chain |-> c,
     Direction |-> direction(tr, wallet),
     Amount_Raw |-> DecimalStr(amt.amount),
     Currency |-> amt.currency_symbol,
     Description |-> description_final(t, amt.description_base),
     TransactionHash |-> IF tr.transactionHash = None THEN tx_hash_main(t)
                         ELSE tr.transactionHash,
     Fee_Native |-> fee_str,
     Counterparty |-> counterparty(tr, wallet)]

\* Where the iteration for transfer tr ends, and the locals it leaves.
\* exit: "no_from_to" (continue, line 213), "not_wallet" (continue, line
\* 231), "unknown_type" (continue, line 288), "raised" (an exception leaves
\* the function), "filtered" (continue, line 462), "appended" (line 464).
Locals(exit, tr, wallet, amt, fee_str, authentic, fake) ==
    [exit |-> exit,
     direction |-> direction(tr, wallet),
     currency_symbol |-> amt.currency_symbol,
     token_name |-> token_name(tr),
     fee_for_this_record_str |-> fee_str,
     is_authentic_usdt |-> authentic,
     is_fake_token |-> fake,
     exc |-> amt.exc]

NoAmount == [outcome |-> "none", exc |-> "none", amount |-> Decimal0,
             currency_symbol |-> NA, description_base |-> <<>>]

TransferIteration(t, tr, wallet, c, fee_decimal) ==
    LET amt == Amount(tr, c)
        fee_str == fee_for_this_record_str(t, fee_decimal)
        authentic == is_authentic_usdt(tr, c)
        fake == is_fake_token(amt.currency_symbol, token_name(tr), authentic, fee_str)
    IN  IF MissingFromTo(tr)
        THEN [exit |-> "no_from_to", direction |-> "NONE", currency_symbol |-> NA,
              token_name |-> <<>>, fee_for_this_record_str |-> <<>>,
              is_authentic_usdt |-> FALSE, is_fake_token |-> FALSE, exc |-> "none"]
        ELSE IF direction(tr, wallet) = "NONE"
        THEN Locals("not_wallet", tr, wallet, NoAmount, <<>>, FALSE, FALSE)
        ELSE IF amt.outcome = "unknown_type"
        THEN Locals("unknown_type", tr, wallet, amt, <<>>, FALSE, FALSE)
        ELSE IF amt.outcome = "raise"
        THEN Locals("raised", tr, wallet, amt, <<>>, FALSE, FALSE)
        ELSE IF fake
        THEN Locals("filtered", tr, wallet, amt, fee_str, authentic, TRUE)
        ELSE Locals("appended", tr, wallet, amt, fee_str, authentic, FALSE)

\* line 233 is reached
InvolvesWallet(exit) == exit \notin {"no_from_to", "not_wallet"}

-----------------------------------------------------------------------------
(* The tail of one iteration of `for tx in transactions` (lines 477-513).  *)

\* line 478
NeedsSyntheticCheck(t, processed) == ~processed /\ t.txType \in WalletInitiated

\* lines 482-494
synthetic_description(t) ==
    LET method_name == t.dataDecoded.method
        params == t.dataDecoded.parameters
        spender_param ==
            IF Len(params) > 0 /\ params[1] # None THEN params[1] ELSE txt_Unknown_Spender
        description ==
            IF ~Truthy(method_name) THEN txt_Safe_Operation
            ELSE IF lower(method_name) = m_approve /\ Truthy(t.to) /\ Len(params) > 0
            THEN txt_Token_Approval_for \o t.to \o txt_to \o spender_param
            ELSE txt_Contract_Interaction \o method_name
    IN  IF ~is_tx_successful(t) THEN txt_Failed \o description ELSE description

\* line 499
EmitsSynthetic(t, fee_decimal) == DecPositive(fee_decimal) \/ is_tx_successful(t)

\* the record of lines 502-513
SyntheticRecord(t, wallet, c, fee_decimal) ==
    [Date |-> execution_date_str(t),
     WalletAddress |-> lower(wallet),
     Chain |-> c,
     Direction |-> "OUT",
     Amount_Raw |-> ZERO_POINT_ZERO,
     Currency |-> NA,
     Description |-> synthetic_description(t),
     TransactionHash |-> tx_hash_main(t),
     Fee_Native |-> DecimalStr(fee_decimal),
     Counterparty |-> IF Truthy(t.to) THEN lower(t.to) ELSE NA]

-----------------------------------------------------------------------------
(* The function on a whole list (lines 163-520).  An element of the list   *)
(* is [head, transfers]: the fields of the transaction and the list under  *)
(* its key 'transfers'.                                                    *)

\* lines 207-475: the transfers loop, from the transfers trs still to come;
\* acc is [records, processed, exception] so far
RECURSIVE TransfersLoop(_, _, _, _, _, _)
TransfersLoop(t, trs, wallet, c, fee_decimal, acc) ==
    IF trs = <<>> THEN acc
    ELSE LET tr == Head(trs)
             l == TransferIteration(t, tr, wallet, c, fee_decimal)
         IN  IF l.exit = "raised"
             THEN [records |-> acc.records, processed |-> TRUE, exception |-> l.exc]
             ELSE TransfersLoop(t, Tail(trs), wallet, c, fee_decimal,
                      [records |->
                           IF l.exit = "appended"
                           THEN Append(acc.records,
                                       TransferRecord(t, tr, wallet, c, Amount(tr, c),
                                                      l.fee_for_this_record_str))
                           ELSE acc.records,
                       processed |-> acc.processed \/ InvolvesWallet(l.exit),
                       exception |-> "none"])

\* lines 172-513: one iteration of `for tx in transactions`, which appends
\* to the records so far
TransactionIteration(raw, wallet, c, records) ==
    LET t == raw.head
        fee_decimal == FeeNativeDecimal(t)
        start == [records |-> records, processed |-> FALSE, exception |-> "none"]
        loop == IF raw.transfers # <<>> /\ ProcessesTransfers(t)
                THEN TransfersLoop(t, raw.transfers, wallet, c, fee_decimal, start)
                ELSE start
    IN  IF SkipsTransaction(t) THEN [records |-> records, exception |-> "none"]
        ELSE IF FeeRaises(t) THEN [records |-> records, exception |-> "NameError"]
        ELSE IF loop.exception # "none"
        THEN [records |-> loop.records, exception |-> loop.exception]
        ELSE [records |->
                  IF /\ NeedsSyntheticCheck(t, loop.processed)
                     /\ EmitsSynthetic(t, fee_decimal)
                  THEN Append(loop.records, SyntheticRecord(t, wallet, c, fee_decimal))
                  ELSE loop.records,
              exception |-> "none"]

\* a variant that takes the elements off the list it was given
transactions_after_call_emptied(txs) == <<>>

\* The list object after a call: lines 171-520 read the list and its
\* dictionaries with `for`, get and subscripts, and assign to none of them.
transactions_after_call(txs) == txs

-----------------------------------------------------------------------------
(* The raw cache (lines 115-149).  The file is written from a value that   *)
(* response.json() decoded, which json.dump and json.load give back as it  *)
(* was; the 'data' key that line 122 takes off each transaction is read    *)
(* nowhere and is not part of the model's transactions.  Reading and       *)
(* writing the file are taken to succeed when the file system allows them. *)

\* a variant that never finds the file
load_data_from_json_never(file) == [none |-> TRUE, data |-> <<>>]

\* lines 131-149: [none, data], none when the function returns None
load_data_from_json(file) ==
    IF file.state = "list" /\ file.items # <<>>
    THEN [none |-> FALSE, data |-> file.items]
    ELSE [none |-> TRUE, data |-> <<>>]

\* lines 115-129: the file after the call
save_data_to_json(data, file) == [state |-> "list", items |-> data]

-----------------------------------------------------------------------------
(* Inputs: the arguments and the elements of the input list, which the     *)
(* model draws one at a time as the loops reach them.                      *)

w_mixed == <<48, 120, 65, 98, 67, 49>>  \* "0xAbC1"
w_lower == <<48, 120, 97, 98, 99, 49>>  \* "0xabc1"
w_upper == <<48, 88, 65, 66, 67, 49>>  \* "0XABC1"
a_other == <<48, 120, 68, 101, 102, 50>>  \* "0xDef2"
a_token == <<48, 120, 97, 48, 98, 56>>  \* "0xa0b8"
hash_tx == <<48, 120, 104, 49>>  \* "0xh1"
date_ok == <<50, 48, 50, 53, 45, 48, 53, 45, 48, 53, 84, 48, 54, 58, 49, 57, 58, 49, 49, 90>>  \* "2025-05-05T06:19:11Z"
date_bad == <<50, 48, 50, 53, 45, 48, 53, 45, 48, 53, 32, 48, 54, 58, 49, 57>>  \* "2025-05-05 06:19"
fee_21 == <<50, 49, 48, 48, 48, 48, 48, 48, 48, 48, 48, 48, 48, 48>>  \* "21000000000000"
fee_zero == <<48>>  \* "0"
str_abc == <<97, 98, 99>>  \* "abc"
v_1500000 == <<49, 53, 48, 48, 48, 48, 48>>  \* "1500000"
d6 == <<54>>  \* decimals 6
s_USDT_cyr == <<85, 83, 68, 1058>>  \* "USD" + U+0422 (Cyrillic)
s_USDC == <<85, 83, 68, 67>>  \* "USDC"
s_usdt == <<117, 115, 100, 116>>  \* "usdt"
s_DAI == <<68, 65, 73>>  \* "DAI"
s_USDT_cyr_long == <<85, 83, 68, 1058, 111, 107, 101, 110>>  \* "USD" + U+0422 + "oken"
s_USD_zw_T == <<85, 83, 68, 8203, 84>>  \* "USD" + U+200B (zero width space) + "T"
s_USDTXX == <<85, 83, 68, 84, 88, 88>>  \* "USDTXX"
s_Credit == <<67, 114, 233, 100, 105, 116>>  \* "Cr" + U+00E9 + "dit"
s_DAI_uml == <<68, 196, 73>>  \* "D" + U+00C4 + "I"
s_math == <<119828, 83, 68, 84, 49, 88>>  \* U+1D414 (mathematical bold U) + "SDT1X"
n_Tether == <<84, 101, 116, 104, 101, 114, 32, 85, 83, 68>>  \* "Tether USD"
n_Tether_cyr == <<84, 1077, 116, 104, 101, 114, 32, 85, 83, 68>>  \* "T" + U+0435 + "ther USD"
n_Dai == <<68, 97, 105>>  \* "Dai"

d0 == <<48>>  \* decimals 0
d18 == <<49, 56>>  \* decimals 18
\* 2^256 - 1, the largest token amount: 78 digits
v_max_uint256 == <<49, 49, 53, 55, 57, 50, 48, 56, 57, 50, 51, 55, 51, 49, 54, 49, 57, 53, 52, 50, 51, 53, 55, 48, 57, 56, 53, 48, 48, 56, 54, 56, 55, 57, 48, 55, 56, 53, 51, 50, 54, 57, 57, 56, 52, 54, 54, 53, 54, 52, 48, 53, 54, 52, 48, 51, 57, 52, 53, 55, 53, 56, 52, 48, 48, 55, 57, 49, 51, 49, 50, 57, 54, 51, 57, 57, 51, 53>>
\* 51 significant digits: fifty 1 and a 5
v_51_digits == <<49, 49, 49, 49, 49, 49, 49, 49, 49, 49, 49, 49, 49, 49, 49, 49, 49, 49, 49, 49, 49, 49, 49, 49, 49, 49, 49, 49, 49, 49, 49, 49, 49, 49, 49, 49, 49, 49, 49, 49, 49, 49, 49, 49, 49, 49, 49, 49, 49, 49, 53>>
\* 10^60: 61 digits, one of them significant
v_10_pow_60 == <<49, 48, 48, 48, 48, 48, 48, 48, 48, 48, 48, 48, 48, 48, 48, 48, 48, 48, 48, 48, 48, 48, 48, 48, 48, 48, 48, 48, 48, 48, 48, 48, 48, 48, 48, 48, 48, 48, 48, 48, 48, 48, 48, 48, 48, 48, 48, 48, 48, 48, 48, 48, 48, 48, 48, 48, 48, 48, 48, 48, 48>>

\* the ETH Mainnet USDT address in its checksum (mixed case) spelling
ETH_USDT_CHECKSUM == <<48, 120, 100, 65, 67, 49, 55, 70, 57, 53, 56, 68, 50, 101, 101, 53, 50, 51, 97, 50, 50, 48, 54, 50, 48, 54, 57, 57, 52, 53, 57, 55, 67, 49, 51, 68, 56, 51, 49, 101, 99, 55>>

Wallets == {w_mixed, w_lower}

Chains == {"eth", "optimism"}

TxTypes == {"MULTISIG_TRANSACTION", "MODULE_TRANSACTION", "ETHEREUM_TRANSACTION"}

NoDataDecoded == [method |-> None, parameters |-> <<>>]

ApproveDecoded == [method |-> m_approve, parameters |-> <<a_other>>]

Tx(date, type, ok, fee, decoded, has) ==
    [executionDate |-> date, txType |-> type, isSuccessful |-> ok, fee |-> fee,
     to |-> a_other, dataDecoded |-> decoded, transactionHash |-> hash_tx,
     txHash |-> None, has_transfers |-> has]

NoTokenInfo ==
    [present |-> FALSE, decimals |-> None, symbol |-> None, name |-> None, address |-> None]

TokenInfo(symbol, name, address, decimals) ==
    [present |-> TRUE, decimals |-> decimals, symbol |-> symbol, name |-> name,
     address |-> address]

Transfer(type, from, to, value, info) ==
    [type |-> type, from |-> from, to |-> to, value |-> value, tokenInfo |-> info,
     tokenAddress |-> a_token, tokenId |-> None, transactionHash |-> None]

usdt_trusted == TokenInfo(USDT, n_Tether, TRUSTED_ETH_USDT, d6)

dai(decimals) == TokenInfo(s_DAI, n_Dai, a_token, decimals)

\* Transactions of Spec: every type, outcome and fee, with and without
\* transfers; a decoded call; and the two kinds of unusable date.
TxInputs ==
    {Tx(date_ok, type, ok, fee, NoDataDecoded, has) :
        type \in TxTypes, ok \in {"true", "false"},
        fee \in {None, fee_zero, fee_21, str_abc}, has \in BOOLEAN}
    \cup {Tx(date_ok, type, "absent", None, NoDataDecoded, TRUE) : type \in TxTypes}
    \cup {Tx(date_ok, "MULTISIG_TRANSACTION", ok, fee_21, ApproveDecoded, FALSE) :
            ok \in {"true", "false"}}
    \cup {Tx(date, "MULTISIG_TRANSACTION", "true", fee_21, NoDataDecoded, TRUE) :
            date \in {None, date_bad}}
    \cup {[Tx(date_ok, "MULTISIG_TRANSACTION", "true", fee_21, NoDataDecoded, FALSE)
               EXCEPT !.to = None]}

\* every pair of parties
PartyTransfers ==
    {Transfer(ERC20_TRANSFER, from, to, v_1500000, usdt_trusted) :
        from \in {w_lower, w_upper, a_other, None},
        to \in {w_mixed, a_other}}

\* every transfer type, with the values and token metadata it reads
TypedTransfers ==
    {Transfer(ERC20_TRANSFER, a_other, w_mixed, value, info) :
        value \in {v_1500000, str_abc},
        info \in {NoTokenInfo, dai(d6), dai(None), dai(str_abc)}}
    \cup {Transfer(ETHER_TRANSFER, a_other, w_mixed, value, NoTokenInfo) :
            value \in {v_1500000, str_abc, None}}
    \cup {Transfer(ERC721_TRANSFER, a_other, w_mixed, value, info) :
            value \in {fee_zero, str_abc}, info \in {NoTokenInfo, dai(None)}}
    \cup {Transfer(ERC1155_TRANSFER, a_other, w_mixed, v_1500000, NoTokenInfo),
          Transfer(None, a_other, w_mixed, v_1500000, NoTokenInfo)}

\* tokens the counterfeit filter drops, received and sent
FakeTransfers ==
    {Transfer(ERC20_TRANSFER, from, w_mixed, v_1500000,
              TokenInfo(s_USDT_cyr, n_Tether, a_token, d6)) :
        from \in {w_lower, a_other}}

TransferInputs == PartyTransfers \cup TypedTransfers \cup FakeTransfers

\* Transactions of SpecFilter: successful, with transfers, of every type and
\* with no fee, a fee of zero and a fee.
FilterTxInputs ==
    {Tx(date_ok, type, "true", fee, NoDataDecoded, TRUE) :
        type \in TxTypes, fee \in {None, fee_zero, fee_21}}

FilterSymbols ==
    {USDT, s_USDT_cyr, s_USDC, s_usdt, s_DAI, s_USDT_cyr_long, s_USD_zw_T,
     s_USDTXX, s_Credit, s_DAI_uml, s_math}

FilterNames == {n_Tether, n_Tether_cyr, n_Dai}

\* the other spellings of a token's contract address
FilterAddresses == {ETH_USDT_CHECKSUM, TRUSTED_OP_USDT, None}

\* Transfers of SpecFilter: ERC20 transfers received by the wallet, of
\* every token made of these symbols and names, at a trusted and at another
\* contract address; and of every symbol at the other spellings.
FilterTransferInputs ==
    {Transfer(ERC20_TRANSFER, a_other, w_mixed, v_1500000,
              TokenInfo(symbol, name, address, d6)) :
        symbol \in FilterSymbols, name \in FilterNames,
        address \in {TRUSTED_ETH_USDT, a_token}}
    \cup {Transfer(ERC20_TRANSFER, a_other, w_mixed, v_1500000,
                   TokenInfo(symbol, n_Tether, address, d6)) :
            symbol \in FilterSymbols, address \in FilterAddresses}

hash_2 == <<48, 120, 104, 50>>  \* "0xh2"
hash_3 == <<48, 120, 104, 51>>  \* "0xh3"
hash_4 == <<48, 120, 104, 52>>  \* "0xh4"

\* the sequences of at most n elements of S
SeqsUpTo(S, n) == UNION {[1..k -> S] : k \in 0..n}

\* an element of the list `transactions`
RawTx(t, trs) == [head |-> [t EXCEPT !.has_transfers = (trs # <<>>)], transfers |-> trs]

\* Transactions of SpecCalls, each with its own hash: two that the wallet
\* sent at a fee, one received from outside, one whose fee is not a number.
CallHeads ==
    {Tx(date_ok, "MULTISIG_TRANSACTION", "true", fee_21, NoDataDecoded, TRUE),
     [Tx(date_ok, "MODULE_TRANSACTION", "true", v_1500000, NoDataDecoded, TRUE)
         EXCEPT !.transactionHash = hash_2],
     [Tx(date_ok, "ETHEREUM_TRANSACTION", "true", fee_21, NoDataDecoded, TRUE)
         EXCEPT !.transactionHash = hash_3],
     [Tx(date_ok, "MULTISIG_TRANSACTION", "true", str_abc, NoDataDecoded, TRUE)
         EXCEPT !.transactionHash = hash_4]}

\* Transfers of SpecCalls: one received, one sent, one the filter drops.
CallTransfers ==
    {Transfer(ERC20_TRANSFER, a_other, w_mixed, v_1500000, usdt_trusted),
     Transfer(ERC20_TRANSFER, w_mixed, a_other, fee_21, dai(d18)),
     Transfer(ERC20_TRANSFER, a_other, w_mixed, v_1500000,
              TokenInfo(s_USDT_cyr, n_Tether, a_token, d6))}

CallLists ==
    SeqsUpTo({RawTx(t, trs) : t \in CallHeads,
                             trs \in SeqsUpTo(CallTransfers, MaxListTransfers)},
             MaxListTxs)

\* States of the raw cache file.  "undecodable" stands for every file that
\* json.load or open fails on (lines 144-149), "empty" for a file whose JSON
\* value is falsy (line 140).
NoFile == [state |-> "absent", items |-> <<>>]

\* Transactions the service holds: one the wallet sent at a fee with no
\* transfer, one deposit.
raw_fee_only ==
    RawTx(Tx(date_ok, "MULTISIG_TRANSACTION", "true", fee_21, NoDataDecoded, FALSE), <<>>)

raw_deposit ==
    RawTx([Tx(date_ok, "ETHEREUM_TRANSACTION", "true", None, NoDataDecoded, TRUE)
              EXCEPT !.transactionHash = hash_3],
          <<Transfer(ERC20_TRANSFER, a_other, w_mixed, v_1500000, usdt_trusted)>>)

\* the `results` of a page
PageResults == {<<>>, <<raw_fee_only>>, <<raw_deposit>>}

\* What a request can meet: a page with its results and its `next` link (0
\* for none), a connection error (requests.get raises), an HTTP error status
\* (raise_for_status raises), or a body that is not the JSON object expected
\* (response.json or data.get raises).
Failures == {"connection_error", "http_error", "bad_json"}

Answers(page) ==
    {[outcome |-> "ok", results |-> r, next |-> n] :
         r \in PageResults,
         n \in {0} \cup (IF page < MaxPages THEN {page + 1} ELSE {})}
    \cup {[outcome |-> o, results |-> <<>>, next |-> 0] : o \in Failures}

\* the cache file before the first run
CacheFiles ==
    {NoFile,
     [state |-> "empty", items |-> <<>>],
     [state |-> "undecodable", items |-> <<>>],
     [state |-> "list", items |-> <<raw_deposit>>]}

\* Transactions of SpecAmount: one received from outside, one sent by the
\* wallet at a fee.
AmountTxInputs ==
    {Tx(date_ok, "ETHEREUM_TRANSACTION", "true", None, NoDataDecoded, TRUE),
     Tx(date_ok, "MULTISIG_TRANSACTION", "true", fee_21, NoDataDecoded, TRUE)}

AmountValues == {v_1500000, fee_21, v_51_digits, v_10_pow_60, v_max_uint256}

AmountDecimals == {d0, d6, d18, None}

\* Transfers of SpecAmount: ERC20 transfers of a token that no criterion of
\* the filter matches, of every such value and decimals, received and sent.
AmountTransferInputs ==
    {Transfer(ERC20_TRANSFER, from, to, value, dai(decimals)) :
        from \in {a_other}, to \in {w_mixed}, value \in AmountValues,
        decimals \in AmountDecimals}
    \cup {Transfer(ERC20_TRANSFER, w_mixed, a_other, value, dai(d18)) :
            value \in AmountValues}

NoTx == Tx(None, "NONE", "absent", None, NoDataDecoded, FALSE)

NoTransfer == Transfer(None, None, None, None, NoTokenInfo)

NoLocals == TransferIteration(NoTx, NoTransfer, <<>>, "eth", Decimal0)

-----------------------------------------------------------------------------
(* The function as a state machine.                                        *)

\* no call of the function as a whole is under way
CallsIdle == transactions = <<>> /\ returned = <<>>

\* the main script has not run yet, and the cache file is `file`
MainStart(file) ==
    /\ main_pc = "idle"
    /\ run = 0
    /\ cache_file = file
    /\ history = <<>>
    /\ eth_parsed = <<>>
    /\ all_results = <<>>
    /\ next_page = 0
    /\ page_count = 0
    /\ response = "unbound"
    /\ fetch_log = <<>>

MainIdle == MainStart(NoFile)

\* lines 163-169
ParseIdle ==
    /\ wallet_address \in Wallets
    /\ chain \in Chains
    /\ parsed_txs = <<>>
    /\ pc = "tx_loop"
    /\ tx_count = 0
    /\ tx = NoTx
    /\ tx_base = 0
    /\ tx_fee_native_decimal = Decimal0
    /\ processed_any_transfer_for_this_wallet = FALSE
    /\ transfer_count = 0
    /\ transfer = NoTransfer
    /\ loc = NoLocals
    /\ exception = "none"

Init == ParseIdle /\ CallsIdle /\ MainIdle

\* lines 171-206: the next transaction of the list, up to the transfers loop
NextTransaction(txs) ==
    /\ pc = "tx_loop"
    /\ tx_count < MaxTxs
    /\ \E t \in txs :
        /\ t.has_transfers => transfer_count < MaxTransfers
        /\ tx' = IF SkipsTransaction(t) THEN NoTx ELSE t
        /\ tx_count' = tx_count + 1
        /\ tx_base' = Len(parsed_txs)
        /\ transfer' = NoTransfer
        /\ loc' = NoLocals
        /\ IF SkipsTransaction(t)
           THEN /\ pc' = "tx_loop"
                /\ UNCHANGED <<tx_fee_native_decimal,
                               processed_any_transfer_for_this_wallet, exception>>
           ELSE IF FeeRaises(t)
           THEN /\ pc' = "raised"
                /\ exception' = "NameError"
                /\ tx_fee_native_decimal' = Decimal0
                /\ UNCHANGED processed_any_transfer_for_this_wallet
           ELSE /\ pc' = IF ProcessesTransfers(t) THEN "transfers" ELSE "after_transfers"
                /\ tx_fee_native_decimal' = FeeNativeDecimal(t)
                /\ processed_any_transfer_for_this_wallet' = FALSE
                /\ UNCHANGED exception
    /\ UNCHANGED <<wallet_address, chain, parsed_txs, transfer_count>>
    /\ UNCHANGED <<call_vars, main_vars>>

\* lines 207-475: one transfer of tx['transfers']
ProcessTransfer(transfers) ==
    /\ pc = "transfers"
    /\ transfer_count < MaxTransfers
    /\ \E tr \in transfers :
        LET l == TransferIteration(tx, tr, wallet_address, chain, tx_fee_native_decimal)
        IN  /\ transfer' = tr
            /\ loc' = l
            /\ transfer_count' = transfer_count + 1
            /\ processed_any_transfer_for_this_wallet' =
                   (processed_any_transfer_for_this_wallet \/ InvolvesWallet(l.exit))
            /\ parsed_txs' =
                   IF l.exit = "appended"
                   THEN Append(parsed_txs,
                               TransferRecord(tx, tr, wallet_address, chain,
                                              Amount(tr, chain), l.fee_for_this_record_str))
                   ELSE parsed_txs
            /\ pc' = IF l.exit = "raised" THEN "raised" ELSE "transfers"
            /\ exception' = IF l.exit = "raised" THEN l.exc ELSE exception
    /\ UNCHANGED <<wallet_address, chain, tx_count, tx, tx_base, tx_fee_native_decimal>>
    /\ UNCHANGED <<call_vars, main_vars>>

\* the transfers loop ends: tx['transfers'] has no further element
EndTransfers ==
    /\ pc = "transfers"
    /\ transfer # NoTransfer
    /\ pc' = "after_transfers"
    /\ UNCHANGED <<wallet_address, chain, parsed_txs, tx_count, tx, tx_base,
                   tx_fee_native_decimal, processed_any_transfer_for_this_wallet,
                   transfer_count, transfer, loc, exception>>
    /\ UNCHANGED <<call_vars, main_vars>>

\* lines 477-513, and the end of the iteration: the loop's locals hold
\* nothing the function reads again
FinishTransaction ==
    /\ pc = "after_transfers"
    /\ parsed_txs' =
           IF /\ NeedsSyntheticCheck(tx, processed_any_transfer_for_this_wallet)
              /\ EmitsSynthetic(tx, tx_fee_native_decimal)
           THEN Append(parsed_txs,
                       SyntheticRecord(tx, wallet_address, chain, tx_fee_native_decimal))
           ELSE parsed_txs
    /\ pc' = "tx_loop"
    /\ tx' = NoTx
    /\ transfer' = NoTransfer
    /\ loc' = NoLocals
    /\ tx_fee_native_decimal' = Decimal0
    /\ processed_any_transfer_for_this_wallet' = FALSE
    /\ UNCHANGED <<wallet_address, chain, tx_count, tx_base, transfer_count, exception>>
    /\ UNCHANGED <<call_vars, main_vars>>

\* line 520: the list is exhausted
Return ==
    /\ pc = "tx_loop"
    /\ pc' = "returned"
    /\ UNCHANGED <<wallet_address, chain, parsed_txs, tx_count, tx, tx_base,
                   tx_fee_native_decimal, processed_any_transfer_for_this_wallet,
                   transfer_count, transfer, loc, exception>>
    /\ UNCHANGED <<call_vars, main_vars>>

Next ==
    \/ NextTransaction(TxInputs)
    \/ ProcessTransfer(TransferInputs)
    \/ EndTransfers
    \/ FinishTransaction
    \/ Return

Spec == Init /\ [][Next]_vars

\* the same function, on the inputs that exercise the counterfeit filter
NextFilter ==
    \/ NextTransaction(FilterTxInputs)
    \/ ProcessTransfer(FilterTransferInputs)
    \/ EndTransfers
    \/ FinishTransaction
    \/ Return

\* one wallet: the filter does not read the wallet address
InitFilter == Init /\ wallet_address = w_mixed

SpecFilter == InitFilter /\ [][NextFilter]_vars

\* the same function, on the inputs that exercise the amounts
NextAmount ==
    \/ NextTransaction(AmountTxInputs)
    \/ ProcessTransfer(AmountTransferInputs)
    \/ EndTransfers
    \/ FinishTransaction
    \/ Return

\* one wallet and one chain: the amount reads neither
InitAmount == Init /\ wallet_address = w_mixed /\ chain = "eth"

SpecAmount == InitAmount /\ [][NextAmount]_vars

\* lines 171-513 in a call on the list `transactions`: the iteration over
\* its next element
IterateTransaction ==
    /\ Len(returned) < MaxCalls
    /\ pc = "tx_loop"
    /\ tx_count < Len(transactions)
    /\ \E one \in {TransactionIteration(transactions[tx_count + 1], wallet_address,
                                         chain, parsed_txs)} :
           /\ parsed_txs' = one.records
           /\ exception' = one.exception
           /\ pc' = IF one.exception = "none" THEN "tx_loop" ELSE "raised"
    /\ tx_count' = tx_count + 1
    /\ UNCHANGED <<wallet_address, chain, tx, tx_base, tx_fee_native_decimal,
                   processed_any_transfer_for_this_wallet, transfer_count, transfer, loc>>
    /\ UNCHANGED <<call_vars, main_vars>>

\* line 520, or the exception that leaves the function: the call is over,
\* with outcome [exception, value], and the next call starts afresh (line 169)
EndCall ==
    /\ Len(returned) < MaxCalls
    /\ \/ pc = "tx_loop" /\ tx_count = Len(transactions)
       \/ pc = "raised"
    /\ returned' = Append(returned,
                          [exception |-> exception,
                           value |-> IF exception = "none" THEN parsed_txs ELSE <<>>])
    /\ transactions' = transactions_after_call(transactions)
    /\ parsed_txs' = <<>>
    /\ tx_count' = 0
    /\ pc' = "tx_loop"
    /\ exception' = "none"
    /\ UNCHANGED <<wallet_address, chain, tx, tx_base, tx_fee_native_decimal,
                   processed_any_transfer_for_this_wallet, transfer_count, transfer, loc>>
    /\ UNCHANGED main_vars

NextCalls ==
    \/ IterateTransaction
    \/ EndCall

InitCalls ==
    /\ ParseIdle
    /\ wallet_address = w_mixed
    /\ chain = "eth"
    /\ transactions \in CallLists
    /\ returned = <<>>
    /\ MainIdle

\* calls of the function, one after the other, on one list
SpecCalls == InitCalls /\ [][NextCalls]_vars

\* a run has ended, or none has started
Ended == {"idle", "done", "fetch_raised", "parse_raised"}

\* lines 533-535, with lines 63-76 when the fetch is called: a run starts
LoadOrFetch ==
    /\ main_pc \in Ended
    /\ run < MaxRuns
    /\ run' = run + 1
    /\ LET loaded == load_data_from_json(cache_file)
       IN  /\ fetch_log' = Append(fetch_log, [start |-> cache_file.state,
                                              called |-> loaded.none,
                                              requests |-> <<>>])
           /\ history' = loaded.data
           /\ IF loaded.none
              THEN /\ main_pc' = "fetch"
                   /\ all_results' = <<>>
                   /\ next_page' = 1
                   /\ page_count' = 0
                   /\ response' = "unbound"
              ELSE /\ main_pc' = "parse"
                   /\ UNCHANGED <<all_results, next_page, page_count, response>>
    /\ eth_parsed' = <<>>
    /\ UNCHANGED <<cache_file, parse_vars, call_vars>>

\* lines 84-109: one pass of the while loop, which requests next_page
FetchPage ==
    /\ main_pc = "fetch"
    /\ next_page # 0
    /\ page_count' = page_count + 1
    /\ \E answer \in Answers(next_page) :
        /\ fetch_log' = [fetch_log EXCEPT ![run].requests = Append(@, answer)]
        /\ response' = IF answer.outcome = "connection_error" THEN response ELSE "bound"
        /\ IF answer.outcome = "ok"
           THEN /\ all_results' = all_results \o answer.results
                /\ next_page' = answer.next
                /\ main_pc' = "fetch"
                /\ UNCHANGED history
           ELSE /\ UNCHANGED <<all_results, next_page>>
                /\ IF answer.outcome = "connection_error" /\ response = "unbound"
                   THEN /\ main_pc' = "fetch_raised"
                        /\ UNCHANGED history
                   ELSE /\ main_pc' = "fetched"
                        /\ history' = all_results
    /\ UNCHANGED <<run, cache_file, eth_parsed, parse_vars, call_vars>>

\* lines 84 and 111-112: no further link
FetchReturn ==
    /\ main_pc = "fetch"
    /\ next_page = 0
    /\ history' = all_results
    /\ main_pc' = "fetched"
    /\ UNCHANGED <<run, cache_file, eth_parsed, all_results, next_page, page_count,
                   response, fetch_log, parse_vars, call_vars>>

\* lines 536-540
SaveFetched ==
    /\ main_pc = "fetched"
    /\ cache_file' = IF history # <<>> THEN save_data_to_json(history, cache_file)
                     ELSE cache_file
    /\ main_pc' = "parse"
    /\ UNCHANGED <<run, history, eth_parsed, all_results, next_page, page_count,
                   response, fetch_log, parse_vars, call_vars>>

\* line 570: parse_safe_transactions is called on the history
StartParse ==
    /\ main_pc = "parse"
    /\ transactions' = history
    /\ returned' = <<>>
    /\ main_pc' = "parsing"
    /\ UNCHANGED <<run, cache_file, history, eth_parsed, all_results, next_page,
                   page_count, response, fetch_log, parse_vars>>

\* line 570: the call is over, and the run with it
FinishRun ==
    /\ main_pc = "parsing"
    /\ Len(returned) = 1
    /\ IF returned[1].exception = "none"
       THEN /\ eth_parsed' = returned[1].value
            /\ main_pc' = "done"
       ELSE /\ main_pc' = "parse_raised"
            /\ UNCHANGED eth_parsed
    /\ UNCHANGED <<run, cache_file, history, all_results, next_page, page_count,
                   response, fetch_log, parse_vars, call_vars>>

NextMain ==
    \/ LoadOrFetch
    \/ FetchPage
    \/ FetchReturn
    \/ SaveFetched
    \/ StartParse
    \/ (main_pc = "parsing" /\ returned = <<>> /\ IterateTransaction)
    \/ (main_pc = "parsing" /\ returned = <<>> /\ EndCall)
    \/ FinishRun

InitMain ==
    /\ ParseIdle
    /\ wallet_address = w_mixed
    /\ chain = "eth"
    /\ CallsIdle
    /\ \E file \in CacheFiles : MainStart(file)

\* the runs of the script for one wallet and chain, one after the other
SpecMain == InitMain /\ [][NextMain]_vars

-----------------------------------------------------------------------------
(* Properties.  A step of ProcessTransfer is one iteration of the transfers *)
(* loop; a step of FinishTransaction is the tail of one transaction.        *)

TransferStep == pc = "transfers" /\ transfer_count' = transfer_count + 1

FinishStep == pc = "after_transfers" /\ pc' = "tx_loop"

AppendsOne == Len(parsed_txs') = Len(parsed_txs) + 1

LastOf(records) == records[Len(records)]

EqualsWallet(address) == address # None /\ lower(address) = lower(wallet_address)

FromTrustedContract(tr) ==
    /\ tr.tokenInfo.present
    /\ tr.tokenInfo.address # None
    /\ lower(tr.tokenInfo.address) \in trusted_usdt_addresses

IsSynthetic(record) ==
    /\ record.Direction = "OUT"
    /\ record.Amount_Raw = ZERO_POINT_ZERO
    /\ record.Currency = NA

\* C1: an ERC20 transfer that involves the wallet and comes from a trusted
\* contract address (compared in lower case) gets its record, whatever its
\* symbol, its token name, the type of the transaction and the fee.
C1_TrustedContractIsRecorded ==
    [][(/\ TransferStep
        /\ transfer'.type = ERC20_TRANSFER
        /\ EqualsWallet(transfer'.from) \/ EqualsWallet(transfer'.to)
        /\ FromTrustedContract(transfer'))
       => /\ AppendsOne
          /\ LastOf(parsed_txs').Currency = transfer'.tokenInfo.symbol]_vars

\* C1 happens: a token with a Cyrillic look-alike symbol, at the trusted
\* address in its checksum spelling, received at no fee, is in the ledger.
C1_Witness ==
    /\ pc = "transfers"
    /\ tx.txType = "ETHEREUM_TRANSACTION"
    /\ transfer.tokenInfo.symbol = s_USDT_cyr
    /\ transfer.tokenInfo.address = ETH_USDT_CHECKSUM
    /\ Len(parsed_txs) = tx_base + 1
    /\ LastOf(parsed_txs).Currency = s_USDT_cyr
    /\ LastOf(parsed_txs).Fee_Native = ZERO_POINT_ZERO

TrustedOnChain(c) ==
    IF c = "eth" THEN {TRUSTED_ETH_USDT}
    ELSE IF c = "optimism" THEN {TRUSTED_OP_USDT}
    ELSE {}

\* what the filter answers for the token of tr when no address is trusted
MatchesACriterion(tr, fee_str) ==
    is_fake_token(tr.tokenInfo.symbol, tr.tokenInfo.name, FALSE, fee_str)

\* C3: the exemption is per chain.  A transfer that matches a criterion of
\* the filter gets a record only if its token address is in the trusted
\* table of the chain the function was called with.
C3_ExemptionIsPerChain ==
    [][(/\ TransferStep
        /\ transfer'.tokenInfo.present
        /\ MatchesACriterion(transfer', loc'.fee_for_this_record_str)
        /\ AppendsOne)
       => /\ transfer'.tokenInfo.address # None
          /\ lower(transfer'.tokenInfo.address) \in TrustedOnChain(chain)]_vars

\* what a transaction charges the wallet, in wei: nothing, or its fee
AttributableFeeIsZero(t) ==
    \/ t.txType \notin WalletInitiated
    \/ t.fee = None
    \/ DecIsZero(DecimalOf(t.fee))

\* C4: criterion f.  A transfer not from a trusted contract, whose
\* attributable fee is zero (whatever the type of the transaction, a
\* multisig or module transaction with no fee or a fee of zero included),
\* and whose symbol or token name contains "USD" in any case while the
\* symbol is not exactly "USDT", yields no record.
C4_ZeroFeeLookAlikeIsDropped ==
    [][(/\ TransferStep
        /\ transfer'.tokenInfo.present
        /\ ~FromTrustedContract(transfer')
        /\ AttributableFeeIsZero(tx)
        /\ \/ Contains(upper(transfer'.tokenInfo.symbol), USD)
           \/ Contains(upper(transfer'.tokenInfo.name), USD)
        /\ transfer'.tokenInfo.symbol # USDT)
       => parsed_txs' = parsed_txs]_vars

\* C5: criterion b.  A transfer not from a trusted contract, whose symbol
\* or token name has a code point of a confusable range, and whose symbol,
\* without its non-alphanumerics and in upper case, contains "USD" or is
\* "USDT", yields no record, whatever the length of the symbol and the fee.
C5_ConfusableSymbolIsDropped ==
    [][(/\ TransferStep
        /\ transfer'.tokenInfo.present
        /\ ~FromTrustedContract(transfer')
        /\ \E i \in 1..Len(transfer'.tokenInfo.symbol \o transfer'.tokenInfo.name) :
              SuspiciousCodePoint((transfer'.tokenInfo.symbol \o transfer'.tokenInfo.name)[i])
        /\ \/ Contains(upper(alnum_only(transfer'.tokenInfo.symbol)), USD)
           \/ upper(alnum_only(transfer'.tokenInfo.symbol)) = USDT)
       => parsed_txs' = parsed_txs]_vars

\* C6: a wallet-initiated transaction with a valid date that got no
\* transfer record, and that paid a fee or succeeded, gets exactly one
\* synthetic record (OUT, amount zero, currency N/A), also when its
\* transfers were dropped by the filter or had an unknown type.
C6_SyntheticRecordWhenNoTransferRecord ==
    [][(/\ FinishStep
        /\ tx.txType \in WalletInitiated
        /\ Len(parsed_txs) = tx_base
        /\ DecPositive(tx_fee_native_decimal) \/ is_tx_successful(tx))
       => /\ AppendsOne
          /\ IsSynthetic(LastOf(parsed_txs'))]_vars

\* the records of the transaction in progress are at most one synthetic one
OnlySyntheticRecord(records) ==
    /\ Len(records) <= tx_base + 1
    /\ \A i \in (tx_base + 1)..Len(records) : IsSynthetic(records[i])

\* C7, as stated: a failed transaction contributes no value-transfer record,
\* whatever its type (multisig, module or ETHEREUM_TRANSACTION) and its
\* transfers; it contributes at most the synthetic record.
C7_FailedContributesNoTransferRecord ==
    [][tx.isSuccessful = "false" => OnlySyntheticRecord(parsed_txs')]_vars

\* C7, amended: a failed transaction whose type is not ETHEREUM_TRANSACTION
\* contributes no value-transfer record; it contributes at most the
\* synthetic record.
C7_FailedWalletInitiatedContributesNoTransferRecord ==
    [][(tx.isSuccessful = "false" /\ tx.txType # "ETHEREUM_TRANSACTION")
       => OnlySyntheticRecord(parsed_txs')]_vars

\* C7 happens: a failed multisig transaction that embeds transfers is past
\* the transfers loop, and the loop has read none of them.
C7_Witness ==
    /\ pc = "after_transfers"
    /\ tx.txType = "MULTISIG_TRANSACTION"
    /\ tx.isSuccessful = "false"
    /\ tx.has_transfers
    /\ transfer = NoTransfer
    /\ Len(parsed_txs) = tx_base

FEE_0_000021 == <<48, 46, 48, 48, 48, 48, 50, 49>>  \* "0.000021"

\* C8: a failed multisig or module transaction with a parseable fee f other
\* than zero yields exactly one record, whatever transfers it embeds: the
\* synthetic record, OUT, with Fee_Native f/10^18 ("0.000021" for
\* "21000000000000") and a Description that starts with "Failed".
C8_FailedWithFeeYieldsOneSyntheticRecord ==
    [][(/\ FinishStep
        /\ tx.txType \in WalletInitiated
        /\ tx.isSuccessful = "false"
        /\ tx.fee # None
        /\ ParsesAsNumber(tx.fee)
        /\ ~DecIsZero(DecimalOf(tx.fee)))
       => /\ Len(parsed_txs') = tx_base + 1
          /\ IsSynthetic(LastOf(parsed_txs'))
          /\ LastOf(parsed_txs').Fee_Native =
                 DecimalStr(DecDivPow10(DecimalOf(tx.fee), 18))
          /\ tx.fee = fee_21 => LastOf(parsed_txs').Fee_Native = FEE_0_000021
          /\ StartsWith(LastOf(parsed_txs').Description, txt_Failed)]_vars

\* C8 happens: the transaction has ended and left one record, the synthetic
\* one of a failed operation, with the fee "0.000021".
C8_Witness ==
    /\ pc = "tx_loop"
    /\ tx_count >= 1
    /\ Len(parsed_txs) = tx_base + 1
    /\ IsSynthetic(LastOf(parsed_txs))
    /\ LastOf(parsed_txs).Fee_Native = FEE_0_000021
    /\ LastOf(parsed_txs).Description = txt_Failed \o txt_Safe_Operation

\* C9: a fee, a value or a decimals that is no number never makes the
\* function raise.
C9_UnparseableNumericNeverRaises == pc # "raised" /\ exception = "none"

\* C10: a transfer neither of whose parties is the wallet, compared in lower
\* case, gets no record; and a record says OUT only if `from` is the wallet
\* and IN only if `to` is the wallet.
C10_DirectionFollowsTheParties ==
    [][TransferStep
       => /\ (~EqualsWallet(transfer'.from) /\ ~EqualsWallet(transfer'.to))
             => parsed_txs' = parsed_txs
          /\ AppendsOne
             => /\ LastOf(parsed_txs').Direction \in {"OUT", "IN"}
                /\ LastOf(parsed_txs').Direction = "OUT" => EqualsWallet(transfer'.from)
                /\ LastOf(parsed_txs').Direction = "IN" => EqualsWallet(transfer'.to)]_vars

\* C10 happens: a transfer sent by the wallet, whose address the transfer
\* spells in upper case, is recorded as OUT.
C10_Witness ==
    /\ pc = "transfers"
    /\ wallet_address = w_mixed
    /\ transfer.from = w_upper
    /\ transfer.to = a_other
    /\ Len(parsed_txs) = tx_base + 1
    /\ LastOf(parsed_txs).Direction = "OUT"
    /\ LastOf(parsed_txs).Counterparty = lower(a_other)

\* a string of zeros, with or without a decimal point
DenotesZero(s) ==
    /\ \E i \in 1..Len(s) : s[i] = 48
    /\ \A i \in 1..Len(s) : s[i] \in {48, 46}

\* C11: every record of a transaction whose type is neither
\* MULTISIG_TRANSACTION nor MODULE_TRANSACTION has a Fee_Native of zero,
\* whatever the `fee` field of the transaction holds.
C11_FeeOnlyForWalletInitiated ==
    [][(tx.txType \notin WalletInitiated /\ AppendsOne)
       => DenotesZero(LastOf(parsed_txs').Fee_Native)]_vars

\* C11 happens: a transfer of an ETHEREUM_TRANSACTION whose `fee` field is
\* "21000000000000" is recorded with the fee "0.0".
C11_Witness ==
    /\ pc = "transfers"
    /\ tx.txType = "ETHEREUM_TRANSACTION"
    /\ tx.fee = fee_21
    /\ Len(parsed_txs) = tx_base + 1
    /\ LastOf(parsed_txs).Fee_Native = ZERO_POINT_ZERO

\* the place of the first c in s, 0 when there is none
FirstIndex(s, c) ==
    IF \E i \in 1..Len(s) : s[i] = c
    THEN CHOOSE i \in 1..Len(s) : s[i] = c /\ \A j \in 1..(i - 1) : s[j] # c
    ELSE 0

\* the number a decimal string denotes ("15", "1.5", "1E-18", "1.5E+59"),
\* as coefficient digits and exponent
DecimalStrValue(s) ==
    LET e == FirstIndex(s, 69)
        mantissa == IF e = 0 THEN s ELSE SubSeq(s, 1, e - 1)
        expo == IF e = 0 THEN 0
                ELSE IF s[e + 1] = 45 THEN 0 - IntOf(SubSeq(s, e + 2, Len(s)))
                ELSE IntOf(SubSeq(s, e + 2, Len(s)))
        dot == FirstIndex(mantissa, 46)
        ds == SelectSeq(mantissa, LAMBDA c : c # 46)
        frac == IF dot = 0 THEN 0 ELSE Len(mantissa) - dot
    IN  [digits |-> StripLeadingZeros([i \in 1..Len(ds) |-> ds[i] - 48]),
         exp |-> expo - frac]

\* a number without the trailing zeros of its coefficient
RECURSIVE Normalized(_)
Normalized(d) ==
    IF d.digits = <<0>> THEN Decimal0
    ELSE IF d.digits[Len(d.digits)] = 0
    THEN Normalized([digits |-> SubSeq(d.digits, 1, Len(d.digits) - 1), exp |-> d.exp + 1])
    ELSE d

SameNumber(a, b) == Normalized(a) = Normalized(b)

\* C13: for every ERC20 transfer with an integer value v and decimals d that
\* yields a record, Amount_Raw denotes exactly v / 10^d, for every v up to
\* 2^256 - 1, values of more than 50 significant digits included.
C13_AmountIsExact ==
    [][(/\ TransferStep
        /\ transfer'.type = ERC20_TRANSFER
        /\ transfer'.tokenInfo.present
        /\ IsDigits(transfer'.value)
        /\ IsDigits(transfer'.tokenInfo.decimals)
        /\ AppendsOne)
       => SameNumber(DecimalStrValue(LastOf(parsed_txs').Amount_Raw),
                     [digits |-> DecimalOf(transfer'.value).digits,
                      exp |-> 0 - IntOf(transfer'.tokenInfo.decimals)])]_vars

NoUppercase(s) == \A i \in 1..Len(s) : s[i] < 65 \/ s[i] > 90

\* the party of a transfer that is not the wallet
OtherParty(tr) == IF EqualsWallet(tr.from) THEN tr.to ELSE tr.from

\* C14: every record, of a transfer or synthetic, has the wallet argument in
\* lower case as WalletAddress and the counterparty address in lower case
\* as Counterparty, which is "N/A" only when the transaction names no
\* counterparty; whatever the case of the wallet argument, of `from`, of
\* `to`.
C14_AddressesAreLowercase ==
    [][AppendsOne
       => LET record == LastOf(parsed_txs')
          IN  /\ record.WalletAddress = lower(wallet_address)
              /\ NoUppercase(record.WalletAddress)
              /\ TransferStep
                 => /\ record.Counterparty = lower(OtherParty(transfer'))
                    /\ NoUppercase(record.Counterparty)
              /\ FinishStep
                 => IF tx.to = None THEN record.Counterparty = NA
                    ELSE /\ record.Counterparty = lower(tx.to)
                         /\ NoUppercase(record.Counterparty)]_vars

\* C14 happens: a transfer from "0xDef2" to the wallet "0xAbC1" is recorded
\* with the wallet "0xabc1" and the counterparty "0xdef2".
C14_Witness ==
    /\ pc = "transfers"
    /\ wallet_address = w_mixed
    /\ transfer.from = a_other
    /\ transfer.to = w_mixed
    /\ Len(parsed_txs) = tx_base + 1
    /\ LastOf(parsed_txs).WalletAddress = w_lower
    /\ LastOf(parsed_txs).Counterparty = <<48, 120, 100, 101, 102, 50>>

\* C18: an ERC20 transfer of an ETHEREUM_TRANSACTION, from a token contract
\* that is not trusted, whose symbol or token name contains "USD" in any
\* case and whose symbol is not exactly "USDT", yields no record; and the
\* transaction gets no synthetic record in its place.
C18_UntrustedUsdDepositIsDropped ==
    [][tx.txType = "ETHEREUM_TRANSACTION"
       => /\ (/\ TransferStep
              /\ transfer'.type = ERC20_TRANSFER
              /\ transfer'.tokenInfo.present
              /\ ~FromTrustedContract(transfer')
              /\ \/ Contains(upper(transfer'.tokenInfo.symbol), USD)
                 \/ Contains(upper(transfer'.tokenInfo.name), USD)
              /\ transfer'.tokenInfo.symbol # USDT)
             => parsed_txs' = parsed_txs
          /\ FinishStep => parsed_txs' = parsed_txs]_vars

\* C18 happens: a deposit of "USDC", named "Dai", from an untrusted contract
\* is past the transfers loop of its ETHEREUM_TRANSACTION and has no record.
C18_Witness ==
    /\ pc = "after_transfers"
    /\ tx.txType = "ETHEREUM_TRANSACTION"
    /\ transfer.tokenInfo.symbol = s_USDC
    /\ transfer.tokenInfo.name = n_Dai
    /\ transfer.tokenInfo.address = a_token
    /\ loc.exit = "filtered"
    /\ Len(parsed_txs) = tx_base


C16_EveryTransferRecordCarriesTheFullFee ==
    \A n \in DOMAIN returned : \A i \in DOMAIN returned[n].value :
        \A j \in DOMAIN transactions :
            LET record == returned[n].value[i]
                t == transactions[j].head
            IN  (/\ t.transactionHash = record.TransactionHash
                 /\ t.txType \in WalletInitiated
                 /\ IsDigits(t.fee)
                 /\ DecPositive(DecimalOf(t.fee))
                 /\ ~IsSynthetic(record))
                => SameNumber(DecimalStrValue(record.Fee_Native),
                              [digits |-> DecimalOf(t.fee).digits, exp |-> 0 - 18])

\* C16 happens: a MULTISIG_TRANSACTION with the fee "21000000000000" yielded
\* two transfer records, and each has the fee "0.000021".
C16_Witness ==
    /\ Len(transactions) = 1
    /\ transactions[1].head.txType = "MULTISIG_TRANSACTION"
    /\ transactions[1].head.fee = fee_21
    /\ Len(transactions[1].transfers) = 2
    /\ Len(returned) >= 1
    /\ Len(returned[1].value) = 2
    /\ \A i \in 1..2 : /\ ~IsSynthetic(returned[1].value[i])
                        /\ returned[1].value[i].Fee_Native = FEE_0_000021

\* the results of the pages served, in the order of the requests
OkResults(requests) ==
    Concat([i \in 1..Len(requests) |->
                IF requests[i].outcome = "ok" THEN requests[i].results ELSE <<>>])

\* lines 536-540 of this run are behind
PastSave == main_pc \in {"parse", "parsing", "done", "parse_raised"}

\* C12: get_safe_transactions follows the `next` links until there is none
\* and returns the concatenation, in page order, of the results of the pages
\* served before the first failure; a failure of any kind on any page, a
\* connection error on the first request included, makes it return what it
\* has accumulated instead of raising, and it requests nothing afterwards.
C12_FailureReturnsTheAccumulatedResults ==
    /\ main_pc # "fetch_raised"
    /\ main_pc = "fetched" =>
           LET requests == fetch_log[run].requests
           IN  /\ history = OkResults(requests)
               /\ \A i \in 1..(Len(requests) - 1) :
                      requests[i].outcome = "ok" /\ requests[i].next # 0
               /\ requests[Len(requests)].outcome = "ok"
                      => requests[Len(requests)].next = 0

\* a later request of run r failed after a page had been served, and left
\* a partial list that is not empty
FailedOnALaterPage(r) ==
    LET requests == fetch_log[r].requests
    IN  /\ Len(requests) >= 2
        /\ requests[1].outcome = "ok"
        /\ requests[Len(requests)].outcome \in Failures
        /\ OkResults(requests) # <<>>

=============================================================================
